---- MODULE Spec2Model ----
(***************************************************************************)
(* Model of plainkey/platform.go: the process-wide platform key store      *)
(* (platformKeys guarded by platformKeysMu), the key selector              *)
(* getPlatformKey and the handler operation RecoverKeys.                   *)
(*                                                                         *)
(* Go slices are modelled as what they are: a header (buf, len, cap) into  *)
(* a backing array on the heap.  Assigning a slice copies the header only, *)
(* and append writes into the backing array when the capacity allows.      *)
(***************************************************************************)
EXTENDS Integers, Sequences, FiniteSets, TLC

\* ------------------------------------------------------------------ bounds
NumKeys == 2          \* platform keys are the values 1..NumKeys
MaxArgs == 2          \* most keys in one variadic argument list written out
MaxWrites == 3        \* most SetPlatformKeys/AddPlatformKeys calls in a run
NumWriters == 2       \* threads calling SetPlatformKeys/AddPlatformKeys
NumReaders == 1       \* threads calling RecoverKeys
MaxInt == 2           \* versions, generations, plaintexts are 1..MaxInt
MaxGcmNonceLen == 2   \* most bytes of the handle nonce after the KDF salt
SeqWrites == 1        \* SetPlatformKeys calls in the sequential specification

Keys == 1..NumKeys
Writers == 1..NumWriters
Readers == 1..NumReaders

\* A slice element that a racing reader observes while append is half way
\* through writing it: a []byte header mixed from the old and the new key.
Torn == 0

\* The zero value of a slice element: what make() leaves in the cells of a
\* new backing array beyond the length.
NilKey == -1

NoThread == 0
NoBuf == 0

\* --------------------------------------------------------------- sequences
Prefix(s, n) == SubSeq(s, 1, n)

SeqsUpTo(S, n) == UNION {[1..k -> S] : k \in 0..n}

RECURSIVE Overwrite(_, _, _)
\* cells at+1 .. at+Len(vals) of array a replaced by vals
Overwrite(a, at, vals) ==
    IF vals = << >> THEN a
    ELSE Overwrite([a EXCEPT ![at + 1] = Head(vals)], at + 1, Tail(vals))

\* ------------------------------------------------------------------- state
VARIABLES
    heap,          \* backing arrays: heap[b] is array b, Len(heap[b]) its size
    callerBufs,    \* arrays the caller of the API holds a slice of
    platformKeys,  \* the package variable: a slice header
    muW,           \* platformKeysMu: the writer that holds or awaits it
    muR,           \* platformKeysMu: the readers holding the read lock
    w,             \* per writer thread: position, operation, argument
    r,             \* per reader thread: position and locals of RecoverKeys
    log            \* history: the writes so far, folded (see Logged)

vars == <<heap, callerBufs, platformKeys, muW, muR, w, r, log>>

\* The nil slice: no backing array.
NilSlice == [buf |-> NoBuf, len |-> 0, cap |-> 0]

\* The keys a slice header denotes now, read through the heap.
SliceVals(s) == IF s.buf = NoBuf THEN << >> ELSE Prefix(heap[s.buf], s.len)

\* Element i (from 0, as Go counts) of a slice, read through the heap now.
SliceAt(s, i) == heap[s.buf][i + 1]

\* The content of the store now.
StoreVals == SliceVals(platformKeys)

\* ------------------------------------------------------ variadic arguments
\* The argument keys of a call is a slice.  A call that passes s... or
\* s[:j]... hands over the caller's own header; a call that writes the keys
\* out gets a new array of exactly that size, and nil for no keys.  The
\* array of a written-out AddPlatformKeys argument is read once by append
\* and referenced by nothing afterwards, so it is kept in tmp, off the heap.
SliceArg(b, j) == [buf |-> b, len |-> j, cap |-> Len(heap[b]), tmp |-> << >>]

TmpArg(vals) == [buf |-> NoBuf, len |-> Len(vals), cap |-> Len(vals), tmp |-> vals]

ArgVals(a) == IF a.buf = NoBuf THEN a.tmp ELSE Prefix(heap[a.buf], a.len)

ArgHeader(a) == [buf |-> a.buf, len |-> a.len, cap |-> a.cap]

\* What the caller can pass as s[:j]...: a prefix of an array it holds.
CallerSlices == UNION {{SliceArg(b, j) : j \in 0..Len(heap[b])} : b \in callerBufs}

KeyLists == SeqsUpTo(Keys, MaxArgs)

IdleWriter == [pc |-> "idle", op |-> "none", arg |-> TmpArg(<< >>), src |-> << >>]

\* Calls begun and not yet in the history.
InFlight == {t \in Writers : w[t].pc \in {"drain", "locked", "writing"}}

\* ------------------------------------------------------------ the history
\* The writes in the order of their critical sections, applied one at a
\* time to an abstract list: n counts them, list is the list they produce,
\* op and vals are the last write and before the list it found.
NoWrites == [n |-> 0, list |-> << >>, op |-> "none", vals |-> << >>, before |-> << >>]

Logged(op, vals) ==
    [n |-> log.n + 1,
     list |-> IF op = "Set" THEN vals ELSE log.list \o vals,
     op |-> op, vals |-> vals, before |-> log.list]

\* --------------------------------------------------------- the primitives
\* Hash algorithms: 1 is linked into the program, 2 is a known algorithm
\* that is not linked in, 3 is no known algorithm.
HashAlgs == {1, 2, 3}

\* crypto.Hash.Available
Available(alg) == alg = 1

\* The algorithms with an identifier on the wire.
Supported(alg) == alg \in {1, 2}

\* The KDF salt prefix of the handle nonce.
symKeySaltSize == 16

\* hmac.New(alg.New, key); h.Write(salt); h.Sum(nil): an ideal MAC, equal
\* digests only for equal algorithm, key and message.
HMAC(alg, key, salt) == <<alg, key, salt>>

\* deriveAESKey(key, salt): 32 bytes, determined by both inputs and
\* different for different inputs.
deriveAESKey(key, salt) == [ikm |-> key, salt |-> salt, size |-> 32]

\* aes.NewCipher: the key must be 16, 24 or 32 bytes.
NewCipherOk(aesKey) == aesKey.size \in {16, 24, 32}

\* cipher.NewGCMWithNonceSize: refuses a nonce size of zero.
NewGCMWithNonceSizeOk(size) == size > 0

\* DER of a small INTEGER: tag, length, value.
DerInt(v) == <<2, 1, v>>

\* DER of the algorithm identifier: its stable value on the wire.
DerAlg(alg) == <<10, 1, alg>>

\* additionalData.MarshalASN1 and builder.Bytes(): a SEQUENCE of version,
\* generation, kdfAlg, authMode; an error for an algorithm with no
\* identifier.
MarshalASN1(aad) ==
    LET body == DerInt(aad.Version) \o DerInt(aad.Generation) \o
                DerAlg(aad.KDFAlg) \o DerInt(aad.AuthMode)
    IN IF Supported(aad.KDFAlg)
       THEN [ok |-> TRUE, bytes |-> <<48, Len(body)>> \o body]
       ELSE [ok |-> FALSE, bytes |-> << >>]

\* AES-GCM seal: an ideal AEAD, the ciphertext determines key, nonce,
\* associated data and plaintext.
Seal(aesKey, nonce, plaintext, aadBytes) ==
    [k |-> aesKey, n |-> nonce, p |-> plaintext, a |-> aadBytes]

\* aead.Open: the plaintext when key, nonce and associated data are those
\* of the seal, an authentication failure otherwise.
AeadOpen(aesKey, nonce, ciphertext, aadBytes) ==
    IF ciphertext.k = aesKey /\ ciphertext.n = nonce /\ ciphertext.a = aadBytes
    THEN [ok |-> TRUE, plaintext |-> ciphertext.p]
    ELSE [ok |-> FALSE, plaintext |-> 0]

\* ----------------------------------------------------------- the envelope
IntVals == 1..MaxInt
AuthModes == 0..(MaxInt - 1)
Zeros(n) == [i \in 1..n |-> 0]

\* What the sealing side chooses.  It can seal only with an algorithm that
\* has an identifier and a nonce that holds the KDF salt.
SealParams ==
    [key : Keys, plaintext : IntVals, version : IntVals, generation : IntVals,
     kdfAlg : {a \in HashAlgs : Supported(a)}, authMode : AuthModes,
     nonce : {Zeros(n) : n \in symKeySaltSize..(symKeySaltSize + MaxGcmNonceLen)},
     alg : {a \in HashAlgs : Available(a)}, salt : {7}]

\* The handle (the JSON of keyData, json: whether it parses) and what the
\* host framework passes with it.
Envelope(sp) ==
    [handle |-> [json |-> TRUE, Version |-> sp.version,
                 Alg |-> sp.alg, Salt |-> sp.salt,
                 Digest |-> HMAC(sp.alg, sp.key, sp.salt),
                 Nonce |-> sp.nonce],
     Generation |-> sp.generation, KDFAlg |-> sp.kdfAlg, AuthMode |-> sp.authMode,
     payload |-> Seal(deriveAESKey(sp.key, Prefix(sp.nonce, symKeySaltSize)),
                      SubSeq(sp.nonce, symKeySaltSize + 1, Len(sp.nonce)),
                      sp.plaintext,
                      MarshalASN1([Version |-> sp.version, Generation |-> sp.generation,
                                   KDFAlg |-> sp.kdfAlg, AuthMode |-> sp.authMode]).bytes)]

\* Another value of the same small domain.
Other(v) == (v % MaxInt) + 1
OtherAuthMode(v) == (v + 1) % MaxInt

\* What differs between the seal and the call.
Tampers ==
    {<<"none", 0>>, <<"version", 0>>, <<"generation", 0>>, <<"authMode", 0>>,
     <<"digest", 0>>, <<"payload", 0>>, <<"json", 0>>}
    \cup {<<"kdfAlg", a>> : a \in HashAlgs}
    \cup {<<"alg", a>> : a \in HashAlgs}
    \cup {<<"nonceByte", i>> : i \in 1..(symKeySaltSize + MaxGcmNonceLen)}
    \cup {<<"nonceLen", n>> : n \in {0, symKeySaltSize - 1, symKeySaltSize}}
    \cup {<<"nonceLenKdfAlg", 0>>, <<"kdfAlgAlg", 0>>, <<"algNonceLen", 0>>,
          <<"digestGeneration", 0>>}

Tamper(e, tam) ==
    LET kind == tam[1]
        x == tam[2] IN
    CASE kind = "none" -> e
      [] kind = "version" -> [e EXCEPT !.handle.Version = Other(@)]
      [] kind = "generation" -> [e EXCEPT !.Generation = Other(@)]
      [] kind = "authMode" -> [e EXCEPT !.AuthMode = OtherAuthMode(@)]
      [] kind = "kdfAlg" -> [e EXCEPT !.KDFAlg = x]
      [] kind = "alg" -> [e EXCEPT !.handle.Alg = x]
      [] kind = "digest" -> [e EXCEPT !.handle.Digest = <<0, 0, 0>>]
      [] kind = "payload" -> [e EXCEPT !.payload.a = << >>]
      [] kind = "json" -> [e EXCEPT !.handle.json = FALSE]
      [] kind = "nonceByte" ->
            IF x <= Len(e.handle.Nonce)
            THEN [e EXCEPT !.handle.Nonce[x] = 1 - @]
            ELSE e
      [] kind = "nonceLen" -> [e EXCEPT !.handle.Nonce = Prefix(@, x)]
      [] kind = "nonceLenKdfAlg" ->
            [e EXCEPT !.handle.Nonce = Prefix(@, symKeySaltSize - 1), !.KDFAlg = 3]
      [] kind = "kdfAlgAlg" -> [e EXCEPT !.KDFAlg = 3, !.handle.Alg = 2]
      [] kind = "algNonceLen" ->
            [e EXCEPT !.handle.Alg = 2, !.handle.Nonce = Prefix(@, symKeySaltSize)]
      [] kind = "digestGeneration" ->
            [e EXCEPT !.handle.Digest = <<0, 0, 0>>, !.Generation = Other(@)]

\* ------------------------------------- SetPlatformKeys and AddPlatformKeys
\* A Lock that does not exclude the other writers.
LockNoExclusion(t) ==
    muW' = t

\* platformKeysMu.Lock(), first half: the writer excludes the other writers
\* and announces itself, which keeps new readers out.
Lock(t) ==
    /\ muW = NoThread
    /\ muW' = t

\* The call, up to the point where it has the writers' side of the lock.
\* The argument slice is built by the caller.  SetPlatformKeys keeps the
\* argument array, so a written-out list passed to it is an array on the
\* heap, and one the caller may hold on to.
SetPlatformKeys(t, a) ==
    /\ w[t].pc = "idle"
    /\ log.n + Cardinality(InFlight) < MaxWrites
    /\ Lock(t)
    /\ IF a.buf = NoBuf /\ a.tmp # << >>
       THEN /\ heap' = Append(heap, a.tmp)
            /\ callerBufs' = callerBufs \cup {Len(heap) + 1}
            /\ w' = [w EXCEPT ![t] = [pc |-> "drain", op |-> "Set", src |-> << >>,
                        arg |-> [buf |-> Len(heap) + 1, len |-> Len(a.tmp),
                                 cap |-> Len(a.tmp), tmp |-> << >>]]]
       ELSE /\ w' = [w EXCEPT ![t] = [pc |-> "drain", op |-> "Set", src |-> << >>,
                                      arg |-> a]]
            /\ UNCHANGED <<heap, callerBufs>>
    /\ UNCHANGED <<platformKeys, muR, r, log>>

AddPlatformKeys(t, a) ==
    /\ w[t].pc = "idle"
    /\ log.n + Cardinality(InFlight) < MaxWrites
    /\ Lock(t)
    /\ w' = [w EXCEPT ![t] = [pc |-> "drain", op |-> "Add", src |-> << >>, arg |-> a]]
    /\ UNCHANGED <<heap, callerBufs, platformKeys, muR, r, log>>

\* platformKeysMu.Lock(), second half: the writer waits until the readers
\* that hold the lock have left.
LockDrained(t) ==
    /\ w[t].pc = "drain"
    /\ muR = {}
    /\ w' = [w EXCEPT ![t].pc = "locked"]
    /\ UNCHANGED <<heap, callerBufs, platformKeys, muW, muR, r, log>>

\* SetPlatformKeys that returns early when it is given no keys.
SetAssignSkipsEmpty(t) ==
    /\ w[t].pc = "locked"
    /\ w[t].op = "Set"
    /\ platformKeys' = IF w[t].arg.len = 0 THEN platformKeys ELSE ArgHeader(w[t].arg)
    /\ log' = Logged(w[t].op, ArgVals(w[t].arg))
    /\ w' = [w EXCEPT ![t].pc = "assigned"]
    /\ r' = [x \in Readers |->
                IF r[x].pc = "range" THEN [r[x] EXCEPT !.setSince = TRUE] ELSE r[x]]
    /\ UNCHANGED <<heap, callerBufs, muW, muR>>

\* platformKeys = keys.  For the history, every reader that is iterating a
\* snapshot notes that a SetPlatformKeys has assigned since it was taken.
SetAssign(t) ==
    /\ w[t].pc = "locked"
    /\ w[t].op = "Set"
    /\ platformKeys' = ArgHeader(w[t].arg)
    /\ log' = Logged(w[t].op, ArgVals(w[t].arg))
    /\ w' = [w EXCEPT ![t].pc = "assigned"]
    /\ r' = [x \in Readers |->
                IF r[x].pc = "range" THEN [r[x] EXCEPT !.setSince = TRUE] ELSE r[x]]
    /\ UNCHANGED <<heap, callerBufs, muW, muR>>

\* runtime.growslice, for arrays of fewer than 256 elements.
growslice(oldCap, needed) == IF needed > 2 * oldCap THEN needed ELSE 2 * oldCap

\* append(keys, platformKeys...): the arguments of append exchanged.
GrownArrayArgsFirst(s, vals) ==
    LET n == growslice(s.cap, s.len + Len(vals))
    IN vals \o SliceVals(s) \o [i \in 1..(n - s.len - Len(vals)) |-> NilKey]

\* The array append allocates when the capacity does not suffice.
GrownArray(s, vals) ==
    LET n == growslice(s.cap, s.len + Len(vals))
    IN SliceVals(s) \o vals \o [i \in 1..(n - s.len - Len(vals)) |-> NilKey]

\* platformKeys = append(platformKeys, keys...) where nothing is written in
\* place: no keys (append returns its first argument), or a new array.
AddAssign(t) ==
    LET vals == ArgVals(w[t].arg) IN
    /\ w[t].pc = "locked"
    /\ w[t].op = "Add"
    /\ \/ /\ vals = << >>
          /\ UNCHANGED <<heap, platformKeys>>
       \/ /\ vals # << >>
          /\ platformKeys.len + Len(vals) > platformKeys.cap
          /\ heap' = Append(heap, GrownArray(platformKeys, vals))
          /\ platformKeys' = [buf |-> Len(heap) + 1,
                              len |-> platformKeys.len + Len(vals),
                              cap |-> Len(GrownArray(platformKeys, vals))]
    /\ log' = Logged(w[t].op, ArgVals(w[t].arg))
    /\ w' = [w EXCEPT ![t].pc = "assigned"]
    /\ UNCHANGED <<callerBufs, muW, muR, r>>

\* append with room in the array: the keys are copied (memmove: the source
\* is read as it was) into the cells after the length.  The copy is not
\* atomic, so between its start and its end a reader that still iterates a
\* slice of this array reads a half-written element.
AppendBegin(t) ==
    LET vals == ArgVals(w[t].arg) IN
    /\ w[t].pc = "locked"
    /\ w[t].op = "Add"
    /\ vals # << >>
    /\ platformKeys.len + Len(vals) <= platformKeys.cap
    /\ heap' = [heap EXCEPT ![platformKeys.buf] =
                   Overwrite(@, platformKeys.len, [i \in 1..Len(vals) |-> Torn])]
    /\ w' = [w EXCEPT ![t].pc = "writing", ![t].src = vals]
    /\ UNCHANGED <<callerBufs, platformKeys, muW, muR, r, log>>

\* append(platformKeys, keys...) with its result not assigned.
AppendEndResultDropped(t) ==
    /\ w[t].pc = "writing"
    /\ heap' = [heap EXCEPT ![platformKeys.buf] =
                   Overwrite(@, platformKeys.len, w[t].src)]
    /\ log' = Logged("Add", w[t].src)
    /\ w' = [w EXCEPT ![t].pc = "assigned", ![t].src = << >>]
    /\ UNCHANGED <<callerBufs, platformKeys, muW, muR, r>>

AppendEnd(t) ==
    /\ w[t].pc = "writing"
    /\ heap' = [heap EXCEPT ![platformKeys.buf] =
                   Overwrite(@, platformKeys.len, w[t].src)]
    /\ platformKeys' = [platformKeys EXCEPT !.len = @ + Len(w[t].src)]
    /\ log' = Logged("Add", w[t].src)
    /\ w' = [w EXCEPT ![t].pc = "assigned", ![t].src = << >>]
    /\ UNCHANGED <<callerBufs, muW, muR, r>>

\* platformKeysMu.Unlock(), and the return.
Unlock(t) ==
    /\ w[t].pc = "assigned"
    /\ muW' = NoThread
    /\ w' = [w EXCEPT ![t] = IdleWriter]
    /\ UNCHANGED <<heap, callerBufs, platformKeys, muR, r, log>>

\* ------------------------------------------------------------ RecoverKeys
\* What a call returns: the payload (0 for nil) and the error.  kind is
\* "ok" for no error, "InvalidData" for a PlatformHandlerError of that type
\* and "plain" for an error that is not wrapped.  msg is the message as the
\* chain fmt.Errorf("...: %w") builds: the prefix, then the cause.
Result(payload, kind, msg) == [payload |-> payload, kind |-> kind, msg |-> msg]

NoResult == Result(0, "none", << >>)

InvalidData(msg) == Result(0, "InvalidData", msg)

PlainError(msg) == Result(0, "plain", msg)

\* The locals of a thread that is in no call.
NoSealParams ==
    [key |-> 1, plaintext |-> 1, version |-> 1, generation |-> 1, kdfAlg |-> 1,
     authMode |-> 0, nonce |-> Zeros(symKeySaltSize), alg |-> 1, salt |-> 7]

NoInput == [Envelope(NoSealParams) EXCEPT !.handle.json = FALSE]

\* op is the handler operation called and auth the key arguments of the
\* operations that take some.  For the history of the call: rlocks counts
\* the acquisitions of the read lock, copies the reads of platformKeys,
\* opens the calls of aead.Open, and selErr is the error getPlatformKey
\* returned ("" for none).
IdleReader ==
    [pc |-> "idle", op |-> "none", sp |-> NoSealParams, tam |-> <<"none", 0>>,
     in |-> NoInput, auth |-> << >>,
     keys |-> NilSlice, i |-> 0, key |-> NilKey, res |-> NoResult,
     snap |-> << >>, asSnap |-> TRUE, setSince |-> FALSE,
     rlocks |-> 0, copies |-> 0, opens |-> 0, selErr |-> ""]

\* additionalData with the generation taken from the handle's version.
additionalDataVersionTwice(e) ==
    [Version |-> e.handle.Version, Generation |-> e.handle.Version,
     KDFAlg |-> e.KDFAlg, AuthMode |-> e.AuthMode]

\* aad := additionalData{...}: the version of the handle and what the
\* framework passes.
additionalData(e) ==
    [Version |-> e.handle.Version, Generation |-> e.Generation,
     KDFAlg |-> e.KDFAlg, AuthMode |-> e.AuthMode]

\* The error of getPlatformKey returned as it is.
SelectErrorUnwrapped(cause) == InvalidData(<<cause>>)

\* Lines 117 to 122: the error of getPlatformKey, wrapped.
SelectError(cause) == InvalidData(<<"cannot select platform key", cause>>)

\* getPlatformKey with no check of the algorithm.
getPlatformKeyEarlyNoCheck(id) == ""

\* Lines 65 to 67 of getPlatformKey: the error it returns before it asks
\* for the read lock, "" for none.
getPlatformKeyEarly(id) ==
    IF ~Available(id.Alg) THEN "digest algorithm unavailable" ELSE ""

\* RecoverKeys that refuses a nonce of exactly symKeySaltSize bytes.
BeforeGetPlatformKeyNonceLe(e) ==
    LET kd == e.handle
        aad == MarshalASN1(additionalData(e))
    IN IF ~kd.json
       THEN InvalidData(<<"invalid character">>)
       ELSE IF Len(kd.Nonce) <= symKeySaltSize
       THEN InvalidData(<<"invalid nonce size">>)
       ELSE IF ~aad.ok
       THEN InvalidData(<<"cannot serialize AAD", "unknown hash algorithm">>)
       ELSE NoResult

\* RecoverKeys that serialises the AAD before it checks the nonce.
BeforeGetPlatformKeyAadFirst(e) ==
    LET kd == e.handle
        aad == MarshalASN1(additionalData(e))
    IN IF ~kd.json
       THEN InvalidData(<<"invalid character">>)
       ELSE IF ~aad.ok
       THEN InvalidData(<<"cannot serialize AAD", "unknown hash algorithm">>)
       ELSE IF Len(kd.Nonce) < symKeySaltSize
       THEN InvalidData(<<"invalid nonce size">>)
       ELSE NoResult

\* Lines 86 to 114 of RecoverKeys: what the call decides before it calls
\* getPlatformKey.  NoResult: go on.
BeforeGetPlatformKey(e) ==
    LET kd == e.handle
        aad == MarshalASN1(additionalData(e))
    IN IF ~kd.json
       THEN InvalidData(<<"invalid character">>)
       ELSE IF Len(kd.Nonce) < symKeySaltSize
       THEN InvalidData(<<"invalid nonce size">>)
       ELSE IF ~aad.ok
       THEN InvalidData(<<"cannot serialize AAD", "unknown hash algorithm">>)
       ELSE NoResult

\* Lines 86 to 122 of RecoverKeys with the first check of getPlatformKey:
\* what the call decides before it touches the store.  NoResult: go on.
BeforeSelect(e) ==
    IF BeforeGetPlatformKey(e) # NoResult
    THEN BeforeGetPlatformKey(e)
    ELSE IF getPlatformKeyEarly(e.handle) # ""
    THEN SelectError(getPlatformKeyEarly(e.handle))
    ELSE NoResult

\* The call: the framework passes the envelope e (sealed with sp, changed by
\* tam); the handler parses and checks it up to the point where
\* getPlatformKey asks for the read lock.
RecoverKeys(t, sp, tam) ==
    LET e == Tamper(Envelope(sp), tam)
        res == BeforeSelect(e) IN
    /\ r[t].pc = "idle"
    /\ r' = [r EXCEPT ![t] = [IdleReader EXCEPT
                !.pc = IF res = NoResult THEN "rlock" ELSE "done",
                !.op = "RecoverKeys",
                !.sp = sp, !.tam = tam, !.in = e, !.res = res,
                !.selErr = IF BeforeGetPlatformKey(e) = NoResult
                           THEN getPlatformKeyEarly(e.handle) ELSE ""]]
    /\ UNCHANGED <<heap, callerBufs, platformKeys, muW, muR, w, log>>

\* platformKeysMu.RLock(): waits while a writer holds or awaits the lock.
RLock(t) ==
    /\ r[t].pc = "rlock"
    /\ muW = NoThread
    /\ muR' = muR \cup {t}
    /\ r' = [r EXCEPT ![t].pc = "copy", ![t].rlocks = @ + 1]
    /\ UNCHANGED <<heap, callerBufs, platformKeys, muW, w, log>>

\* keys := platformKeys
CopyKeys(t) ==
    /\ r[t].pc = "copy"
    /\ r' = [r EXCEPT ![t].pc = "runlock", ![t].keys = platformKeys,
                       ![t].snap = StoreVals, ![t].copies = @ + 1]
    /\ UNCHANGED <<heap, callerBufs, platformKeys, muW, muR, w, log>>

\* getPlatformKey that goes on without releasing the read lock.
RUnlockKeepsLock(t) ==
    /\ r[t].pc = "runlock"
    /\ r' = [r EXCEPT ![t].pc = "range"]
    /\ UNCHANGED <<heap, callerBufs, platformKeys, muW, muR, w, log>>

\* platformKeysMu.RUnlock()
RUnlock(t) ==
    /\ r[t].pc = "runlock"
    /\ muR' = muR \ {t}
    /\ r' = [r EXCEPT ![t].pc = "range"]
    /\ UNCHANGED <<heap, callerBufs, platformKeys, muW, w, log>>

\* getPlatformKey that drops the keys of the store when none of them
\* matches.
RangeStepClearsStore(t) ==
    LET me == r[t]
        kd == me.in.handle IN
    /\ me.pc = "range"
    /\ IF me.i < me.keys.len
       THEN LET key == SliceAt(me.keys, me.i) IN
            /\ IF HMAC(kd.Alg, key, kd.Salt) = kd.Digest
               THEN r' = [r EXCEPT ![t].pc = "open", ![t].key = key,
                                   ![t].asSnap = @ /\ key = me.snap[me.i + 1]]
               ELSE r' = [r EXCEPT ![t].i = @ + 1,
                                   ![t].asSnap = @ /\ key = me.snap[me.i + 1]]
            /\ UNCHANGED platformKeys
       ELSE /\ r' = [r EXCEPT ![t].pc = "done", ![t].selErr = "no key available",
                              ![t].res = SelectError("no key available")]
            /\ platformKeys' = NilSlice
    /\ UNCHANGED <<heap, callerBufs, muW, muR, w, log>>

\* One turn of for _, key := range keys: element i is read from the array
\* now and its HMAC over the salt compared with the digest; the end of the
\* loop returns "no key available".  snap is the content of keys when it
\* was taken, and asSnap records whether every element read so far was the
\* one snap has at that index.
RangeStep(t) ==
    LET me == r[t]
        kd == me.in.handle IN
    /\ me.pc = "range"
    /\ IF me.i < me.keys.len
       THEN LET key == SliceAt(me.keys, me.i) IN
            IF HMAC(kd.Alg, key, kd.Salt) = kd.Digest
            THEN r' = [r EXCEPT ![t].pc = "open", ![t].key = key,
                                ![t].asSnap = @ /\ key = me.snap[me.i + 1]]
            ELSE r' = [r EXCEPT ![t].i = @ + 1,
                                ![t].asSnap = @ /\ key = me.snap[me.i + 1]]
       ELSE r' = [r EXCEPT ![t].pc = "done", ![t].selErr = "no key available",
                           ![t].res = SelectError("no key available")]
    /\ UNCHANGED <<heap, callerBufs, platformKeys, muW, muR, w, log>>

\* RecoverKeys with cipher.NewGCM, the AEAD of the standard 12 byte nonce:
\* Open refuses a nonce of another length.
OpenPayloadStandardNonce(key, e) ==
    LET kd == e.handle
        aad == MarshalASN1(additionalData(e))
        aesKey == deriveAESKey(key, Prefix(kd.Nonce, symKeySaltSize))
        nonce == SubSeq(kd.Nonce, symKeySaltSize + 1, Len(kd.Nonce))
        opened == AeadOpen(aesKey, nonce, e.payload, aad.bytes)
    IN IF ~NewCipherOk(aesKey)
       THEN PlainError(<<"cannot create cipher", "invalid key size">>)
       ELSE IF Len(nonce) # 12
       THEN PlainError(<<"incorrect nonce length given to GCM">>)
       ELSE IF ~opened.ok
       THEN InvalidData(<<"cannot open payload", "message authentication failed">>)
       ELSE Result(opened.plaintext, "ok", << >>)

\* RecoverKeys that opens with a zero nonce of the right length instead of
\* the bytes of the handle.
OpenPayloadZeroNonce(key, e) ==
    LET kd == e.handle
        aad == MarshalASN1(additionalData(e))
        aesKey == deriveAESKey(key, Prefix(kd.Nonce, symKeySaltSize))
        nonce == Zeros(Len(kd.Nonce) - symKeySaltSize)
        opened == AeadOpen(aesKey, nonce, e.payload, aad.bytes)
    IN IF ~NewCipherOk(aesKey)
       THEN PlainError(<<"cannot create cipher", "invalid key size">>)
       ELSE IF ~NewGCMWithNonceSizeOk(Len(nonce))
       THEN PlainError(<<"cannot create AEAD", "the nonce can't have zero length">>)
       ELSE IF ~opened.ok
       THEN InvalidData(<<"cannot open payload", "message authentication failed">>)
       ELSE Result(opened.plaintext, "ok", << >>)

\* RecoverKeys that reports the refused AEAD as invalid data.
OpenPayloadAeadInvalidData(key, e) ==
    LET kd == e.handle
        aad == MarshalASN1(additionalData(e))
        aesKey == deriveAESKey(key, Prefix(kd.Nonce, symKeySaltSize))
        nonce == SubSeq(kd.Nonce, symKeySaltSize + 1, Len(kd.Nonce))
        opened == AeadOpen(aesKey, nonce, e.payload, aad.bytes)
    IN IF ~NewCipherOk(aesKey)
       THEN PlainError(<<"cannot create cipher", "invalid key size">>)
       ELSE IF ~NewGCMWithNonceSizeOk(Len(nonce))
       THEN InvalidData(<<"cannot create AEAD", "the nonce can't have zero length">>)
       ELSE IF ~opened.ok
       THEN InvalidData(<<"cannot open payload", "message authentication failed">>)
       ELSE Result(opened.plaintext, "ok", << >>)

\* Lines 124 to 143 of RecoverKeys, with the selected key.
OpenPayload(key, e) ==
    LET kd == e.handle
        aad == MarshalASN1(additionalData(e))
        aesKey == deriveAESKey(key, Prefix(kd.Nonce, symKeySaltSize))
        nonce == SubSeq(kd.Nonce, symKeySaltSize + 1, Len(kd.Nonce))
        opened == AeadOpen(aesKey, nonce, e.payload, aad.bytes)
    IN IF ~NewCipherOk(aesKey)
       THEN PlainError(<<"cannot create cipher", "invalid key size">>)
       ELSE IF ~NewGCMWithNonceSizeOk(Len(nonce))
       THEN PlainError(<<"cannot create AEAD", "the nonce can't have zero length">>)
       ELSE IF ~opened.ok
       THEN InvalidData(<<"cannot open payload", "message authentication failed">>)
       ELSE Result(opened.plaintext, "ok", << >>)

\* RecoverKeys that goes on to the next key of the list when the payload
\* does not open with the one selected.
DecryptTriesNextKey(t) ==
    /\ r[t].pc = "open"
    /\ IF OpenPayload(r[t].key, r[t].in).kind = "InvalidData"
          /\ r[t].i + 1 < r[t].keys.len
       THEN r' = [r EXCEPT ![t].pc = "range", ![t].i = @ + 1, ![t].opens = @ + 1]
       ELSE r' = [r EXCEPT ![t].pc = "done", ![t].opens = @ + 1,
                           ![t].res = OpenPayload(r[t].key, r[t].in)]
    /\ UNCHANGED <<heap, callerBufs, platformKeys, muW, muR, w, log>>

\* Lines 124 to 143 of a call: the one attempt to open the payload.
Decrypt(t) ==
    /\ r[t].pc = "open"
    /\ r' = [r EXCEPT ![t].pc = "done", ![t].opens = @ + 1,
                       ![t].res = OpenPayload(r[t].key, r[t].in)]
    /\ UNCHANGED <<heap, callerBufs, platformKeys, muW, muR, w, log>>

\* The error of the operations this platform does not support, wrapped as
\* a PlatformHandlerError.
UnsupportedActionWrapped == InvalidData(<<"unsupported action">>)

\* errors.New("unsupported action")
UnsupportedAction == PlainError(<<"unsupported action">>)

\* RecoverKeysWithAuthKey(data, encryptedPayload, key): returns at once.
RecoverKeysWithAuthKey(t, sp, tam, key) ==
    /\ r[t].pc = "idle"
    /\ r' = [r EXCEPT ![t] = [IdleReader EXCEPT
                !.pc = "done", !.op = "RecoverKeysWithAuthKey",
                !.sp = sp, !.tam = tam, !.in = Tamper(Envelope(sp), tam),
                !.auth = <<key>>, !.res = UnsupportedAction]]
    /\ UNCHANGED <<heap, callerBufs, platformKeys, muW, muR, w, log>>

\* ChangeAuthKey(data, old, new): returns at once.
ChangeAuthKey(t, sp, tam, old, new) ==
    /\ r[t].pc = "idle"
    /\ r' = [r EXCEPT ![t] = [IdleReader EXCEPT
                !.pc = "done", !.op = "ChangeAuthKey",
                !.sp = sp, !.tam = tam, !.in = Tamper(Envelope(sp), tam),
                !.auth = <<old, new>>, !.res = UnsupportedAction]]
    /\ UNCHANGED <<heap, callerBufs, platformKeys, muW, muR, w, log>>

\* The call has returned; the thread is free for the next one.
Return(t) ==
    /\ r[t].pc = "done"
    /\ r' = [r EXCEPT ![t] = IdleReader]
    /\ UNCHANGED <<heap, callerBufs, platformKeys, muW, muR, w, log>>

\* --------------------------------------------------------- specifications
Init ==
    /\ heap = << >>
    /\ callerBufs = {}
    /\ platformKeys = NilSlice
    /\ muW = NoThread
    /\ muR = {}
    /\ w = [t \in Writers |-> IdleWriter]
    /\ r = [t \in Readers |-> IdleReader]
    /\ log = NoWrites

\* The envelopes of the concurrent specification: one per platform key,
\* passed as sealed.
ConcSealParams ==
    {sp \in SealParams : /\ sp.plaintext = 1 /\ sp.version = 1 /\ sp.generation = 1
                        /\ sp.kdfAlg = 1 /\ sp.authMode = 0
                        /\ Len(sp.nonce) = symKeySaltSize + 1}

WriterArgs == {TmpArg(v) : v \in KeyLists} \cup CallerSlices

\* What the operations that are not supported are called with.
UnsupportedTampers == {<<"none", 0>>, <<"json", 0>>}

Next ==
    \/ \E t \in Writers : w[t].pc = "idle" /\ \E a \in WriterArgs : SetPlatformKeys(t, a)
    \/ \E t \in Writers : w[t].pc = "idle" /\ \E a \in WriterArgs : AddPlatformKeys(t, a)
    \/ \E t \in Writers : LockDrained(t)
    \/ \E t \in Writers : SetAssign(t)
    \/ \E t \in Writers : AddAssign(t)
    \/ \E t \in Writers : AppendBegin(t)
    \/ \E t \in Writers : AppendEnd(t)
    \/ \E t \in Writers : Unlock(t)
    \/ \E t \in Readers :
          r[t].pc = "idle" /\ \E sp \in ConcSealParams : RecoverKeys(t, sp, <<"none", 0>>)
    \/ \E t \in Readers :
          /\ r[t].pc = "idle"
          /\ \E sp \in ConcSealParams, tam \in UnsupportedTampers, key \in Keys :
                RecoverKeysWithAuthKey(t, sp, tam, key)
    \/ \E t \in Readers :
          /\ r[t].pc = "idle"
          /\ \E sp \in ConcSealParams, tam \in UnsupportedTampers, old \in Keys :
                \E new \in Keys \ {old} : ChangeAuthKey(t, sp, tam, old, new)
    \/ \E t \in Readers : RLock(t)
    \/ \E t \in Readers : CopyKeys(t)
    \/ \E t \in Readers : RUnlock(t)
    \/ \E t \in Readers : RangeStep(t)
    \/ \E t \in Readers : Decrypt(t)
    \/ \E t \in Readers : Return(t)

Spec == Init /\ [][Next]_vars

\* The sequential specification: the store is set while no RecoverKeys call
\* runs, and RecoverKeys is called, with every envelope and every change to
\* it, while no writer runs.
AllReadersIdle == \A t \in Readers : r[t].pc = "idle"

WritersIdle == \A t \in Writers : w[t].pc = "idle"

NextSeq ==
    \/ \E t \in Writers :
          /\ AllReadersIdle
          /\ log.n < SeqWrites
          /\ \E v \in KeyLists : SetPlatformKeys(t, TmpArg(v))
    \/ \E t \in Writers : LockDrained(t)
    \/ \E t \in Writers : SetAssign(t)
    \/ \E t \in Writers : Unlock(t)
    \/ \E t \in Readers :
          /\ r[t].pc = "idle"
          /\ WritersIdle
          /\ \E sp \in SealParams, tam \in Tampers : RecoverKeys(t, sp, tam)
    \/ \E t \in Readers :
          /\ r[t].pc = "idle"
          /\ \E sp \in ConcSealParams, tam \in UnsupportedTampers, key \in Keys :
                RecoverKeysWithAuthKey(t, sp, tam, key)
    \/ \E t \in Readers :
          /\ r[t].pc = "idle"
          /\ \E sp \in ConcSealParams, tam \in UnsupportedTampers, old \in Keys :
                \E new \in Keys \ {old} : ChangeAuthKey(t, sp, tam, old, new)
    \/ \E t \in Readers : RLock(t)
    \/ \E t \in Readers : CopyKeys(t)
    \/ \E t \in Readers : RUnlock(t)
    \/ \E t \in Readers : RangeStep(t)
    \/ \E t \in Readers : Decrypt(t)
    \/ \E t \in Readers : Return(t)

SpecSeq == Init /\ [][NextSeq]_vars

\* The specification of progress: the concurrent one with one platform
\* key, under fair scheduling.  Every thread that can take its next step
\* takes it (the Go scheduler), and a reader that waits in RLock gets the
\* lock when it is free again and again (sync.RWMutex lets the readers
\* that wait in before the next writer).  Whether a caller calls at all,
\* and whether it calls again after a return, is left open.
LiveSealParams == {sp \in ConcSealParams : sp.key = 1}

LiveArgs == {TmpArg(<< >>), TmpArg(<<1>>)} \cup CallerSlices

NextLive ==
    \/ \E t \in Writers : w[t].pc = "idle" /\ \E a \in LiveArgs : SetPlatformKeys(t, a)
    \/ \E t \in Writers : w[t].pc = "idle" /\ \E a \in LiveArgs : AddPlatformKeys(t, a)
    \/ \E t \in Writers : LockDrained(t)
    \/ \E t \in Writers : SetAssign(t)
    \/ \E t \in Writers : AddAssign(t)
    \/ \E t \in Writers : AppendBegin(t)
    \/ \E t \in Writers : AppendEnd(t)
    \/ \E t \in Writers : Unlock(t)
    \/ \E t \in Readers :
          r[t].pc = "idle" /\ \E sp \in LiveSealParams : RecoverKeys(t, sp, <<"none", 0>>)
    \/ \E t \in Readers : RLock(t)
    \/ \E t \in Readers : CopyKeys(t)
    \/ \E t \in Readers : RUnlock(t)
    \/ \E t \in Readers : RangeStep(t)
    \/ \E t \in Readers : Decrypt(t)
    \/ \E t \in Readers : Return(t)

Fairness ==
    /\ \A t \in Writers :
          /\ WF_vars(LockDrained(t))
          /\ WF_vars(SetAssign(t))
          /\ WF_vars(AddAssign(t))
          /\ WF_vars(AppendBegin(t))
          /\ WF_vars(AppendEnd(t))
          /\ WF_vars(Unlock(t))
    /\ \A t \in Readers :
          /\ SF_vars(RLock(t))
          /\ WF_vars(CopyKeys(t))
          /\ WF_vars(RUnlock(t))
          /\ WF_vars(RangeStep(t))
          /\ WF_vars(Decrypt(t))

SpecLive == Init /\ [][NextLive]_vars /\ Fairness

\* ------------------------------------------------------------- the claims
Range(s) == {s[i] : i \in 1..Len(s)}

\* The readers that hold a snapshot and have not finished iterating it.
Iterating == {t \in Readers : r[t].pc \in {"runlock", "range"}}

\* The writers inside the critical section.
InCritical == {t \in Writers : w[t].pc \in {"locked", "writing", "assigned"}}


\* C1: the key list a reader captured under the read lock holds the same
\* keys in the same order for as long as the reader iterates it: no later
\* SetPlatformKeys or AddPlatformKeys writes into that array.
C1_SnapshotNeverWritten ==
    \A t \in Iterating : SliceVals(r[t].keys) = r[t].snap

\* C2: when a SetPlatformKeys has assigned after a reader took its snapshot
\* and while the reader iterates, every key the iteration has visited is the
\* key the snapshot held at that index before the Set.
C2_IterationSeesPreSetKeys ==
    \A t \in Readers : r[t].setSince => r[t].asSnap

\* C3: when the last write is a SetPlatformKeys(k1..kn), the store is
\* exactly k1..kn, whatever it held before (empty for no arguments).
C3_SetReplaces ==
    log.op = "Set" => StoreVals = log.vals

C3_Witness ==
    /\ WritersIdle
    /\ log.op = "Set"
    /\ log.before # << >>
    /\ Len(log.vals) = 2
    /\ log.vals[1] # log.vals[2]
    /\ log.before # log.vals
    /\ StoreVals = log.vals

\* C4: when the last write is an AddPlatformKeys(k1..kn), the store is the
\* store it found followed by k1..kn (unchanged for no arguments).
C4_AddAppends ==
    log.op = "Add" => StoreVals = log.before \o log.vals

C4_Witness ==
    /\ WritersIdle
    /\ log.op = "Add"
    /\ log.before # << >>
    /\ Len(log.vals) = 2
    /\ log.vals[1] # log.vals[2]
    /\ StoreVals = log.before \o log.vals

\* C5: the writes are serialised: at most one writer is past Lock, no
\* reader holds the read lock while a writer is in its critical section,
\* the store is the list that the writes so far produce when applied one
\* at a time (no key lost, the keys of one call contiguous), and a snapshot
\* taken under the read lock is that list.
C5_WritesSerialised ==
    /\ Cardinality({t \in Writers : w[t].pc # "idle"}) <= 1
    /\ \A t \in Writers : w[t].pc # "idle" => muW = t
    /\ InCritical # {} => muR = {}
    /\ StoreVals = log.list
    /\ \A t \in Readers : r[t].pc = "runlock" => r[t].snap = StoreVals

C5_Witness ==
    /\ log.n >= 2
    /\ log.op = "Add"
    /\ log.before # << >>
    /\ log.vals # << >>
    /\ \E t \in Readers : r[t].pc = "runlock" /\ r[t].snap = log.list
    /\ \E t \in Writers : w[t].pc = "drain"

\* C6: a snapshot taken after writers have returned holds the effect of
\* every one of them, applied in the order in which they ran: it is the
\* list of the history, which ends with the keys of the last write.
C6_SnapshotSeesReturnedWrites ==
    [][\A t \in Readers :
          (r[t].pc = "copy" /\ r'[t].pc = "runlock") =>
             /\ r'[t].snap = log.list
             /\ log.op = "Set" => r'[t].snap = log.vals
             /\ log.op = "Add" => r'[t].snap = log.before \o log.vals]_vars

C6_Witness ==
    /\ WritersIdle
    /\ log.n >= 2
    /\ log.op = "Add"
    /\ log.vals # << >>
    /\ log.before # << >>
    /\ \E t \in Readers : r[t].pc = "runlock" /\ r[t].snap = log.before \o log.vals

\* C7: for a platformKeyId made from k*, getPlatformKey returns k* exactly
\* when k* is in the store at the moment of the snapshot, and otherwise
\* fails with "no key available".
C7_SelectsIffInSnapshot ==
    \A t \in Readers :
       r[t].tam = <<"none", 0>> =>
          /\ r[t].pc = "open" =>
                r[t].key = r[t].sp.key /\ r[t].sp.key \in Range(r[t].snap)
          /\ (r[t].pc = "done" /\ r[t].res.kind = "InvalidData") =>
                /\ r[t].sp.key \notin Range(r[t].snap)
                /\ r[t].res.msg = <<"cannot select platform key", "no key available">>

\* The calls that have returned.
Returned == {t \in Readers : r[t].pc = "done" /\ r[t].op = "RecoverKeys"}

\* The envelope is passed as it was sealed.
AsSealed(t) == r[t].in = Envelope(r[t].sp)

\* AES-GCM can seal with the nonce: what follows the KDF salt is not empty.
Sealable(sp) == NewGCMWithNonceSizeOk(Len(sp.nonce) - symKeySaltSize)

\* getPlatformKey has selected the key the envelope was sealed with.
Selected(t) == r[t].key = r[t].sp.key

\* C8 as stated: for every handle nonce of at least symKeySaltSize bytes,
\* the empty AEAD nonce included, RecoverKeys returns the plaintext of the
\* envelope when its key is in the store.
C8_RoundTripAnyNonce ==
    \A t \in Returned :
       (AsSealed(t) /\ r[t].sp.key \in Range(StoreVals)) =>
          r[t].res = Result(r[t].sp.plaintext, "ok", << >>)

\* C8 as amended: the round trip holds for every handle nonce longer than
\* symKeySaltSize; with exactly symKeySaltSize bytes the AEAD nonce is
\* empty, the AEAD is refused and the call returns no plaintext and a
\* plain "cannot create AEAD" error.
C8_RoundTrip ==
    \A t \in Returned :
       (AsSealed(t) /\ r[t].sp.key \in Range(StoreVals)) =>
          IF Len(r[t].sp.nonce) > symKeySaltSize
          THEN r[t].res = Result(r[t].sp.plaintext, "ok", << >>)
          ELSE /\ r[t].res.payload = 0
               /\ r[t].res.kind = "plain"
               /\ r[t].res.msg[1] = "cannot create AEAD"

C8_Witness ==
    \E t \in Returned :
       /\ AsSealed(t)
       /\ Len(StoreVals) = 2
       /\ StoreVals[2] = r[t].sp.key
       /\ StoreVals[1] # r[t].sp.key
       /\ Len(r[t].sp.nonce) = symKeySaltSize + MaxGcmNonceLen
       /\ r[t].sp.plaintext = MaxInt
       /\ r[t].res = Result(MaxInt, "ok", << >>)

\* C9: when the version of the handle, the generation, the kdfAlg or the
\* authMode of the call differs from the value the payload was sealed
\* with, and the platform key is still selected, RecoverKeys returns no
\* plaintext and an InvalidData error that starts "cannot open payload".
AadTampers ==
    {<<"version", 0>>, <<"generation", 0>>, <<"authMode", 0>>}
    \cup {<<"kdfAlg", a>> : a \in HashAlgs}

AadDiffers(t) ==
    /\ r[t].tam \in AadTampers
    /\ \/ r[t].in.handle.Version # r[t].sp.version
       \/ r[t].in.Generation # r[t].sp.generation
       \/ r[t].in.KDFAlg # r[t].sp.kdfAlg
       \/ r[t].in.AuthMode # r[t].sp.authMode

NonceByteDiffers(t) ==
    /\ r[t].tam[1] = "nonceByte"
    /\ Len(r[t].in.handle.Nonce) = Len(r[t].sp.nonce)
    /\ r[t].in.handle.Nonce # r[t].sp.nonce

C10_NonceBound ==
    \A t \in Returned :
       NonceByteDiffers(t) =>
          /\ r[t].res.payload = 0
          /\ r[t].res.kind \in {"InvalidData", "plain"}
          /\ (Selected(t) /\ Sealable(r[t].sp)) =>
                /\ r[t].res = InvalidData(<<"cannot open payload", "message authentication failed">>)
                /\ IF r[t].tam[2] <= symKeySaltSize
                   THEN deriveAESKey(r[t].key, Prefix(r[t].in.handle.Nonce, symKeySaltSize))
                        # r[t].in.payload.k
                   ELSE SubSeq(r[t].in.handle.Nonce, symKeySaltSize + 1,
                               Len(r[t].in.handle.Nonce)) # r[t].in.payload.n

C10_WitnessSalt ==
    \E t \in Returned :
       /\ NonceByteDiffers(t)
       /\ r[t].tam[2] = symKeySaltSize
       /\ Selected(t)
       /\ r[t].res.kind = "InvalidData"

C10_Witness ==
    \E t \in Returned :
       /\ NonceByteDiffers(t)
       /\ r[t].tam[2] = symKeySaltSize + 1
       /\ Selected(t)
       /\ r[t].res = InvalidData(<<"cannot open payload", "message authentication failed">>)

\* The parts of the call's input.
Handle(t) == r[t].in.handle

AeadNonce(t) == SubSeq(Handle(t).Nonce, symKeySaltSize + 1, Len(Handle(t).Nonce))

\* The indices (from 1) of the keys of a list whose HMAC over the salt of
\* the call's handle is its digest.
Matches(t, keys) ==
    {j \in 1..Len(keys) : HMAC(Handle(t).Alg, keys[j], Handle(t).Salt) = Handle(t).Digest}

\* C11: for a handle that parses, RecoverKeys returns the InvalidData
\* error "invalid nonce size" exactly when the nonce is shorter than
\* symKeySaltSize, and then it returns no plaintext and has neither locked
\* nor read the platform key store.
C11_ShortNonce ==
    \A t \in Returned :
       Handle(t).json =>
          /\ (r[t].res.kind = "InvalidData" /\ r[t].res.msg = <<"invalid nonce size">>)
                <=> Len(Handle(t).Nonce) < symKeySaltSize
          /\ Len(Handle(t).Nonce) < symKeySaltSize =>
                /\ r[t].res.payload = 0
                /\ r[t].rlocks = 0
                /\ r[t].copies = 0
                /\ r[t].keys = NilSlice

C11_Witness ==
    \E t \in Returned :
       /\ Handle(t).json
       /\ Len(Handle(t).Nonce) = symKeySaltSize - 1
       /\ r[t].sp.key \in Range(StoreVals)
       /\ r[t].res.kind = "InvalidData"
       /\ r[t].res.msg = <<"invalid nonce size">>
       /\ r[t].copies = 0

\* C12: whenever getPlatformKey fails inside RecoverKeys, RecoverKeys
\* returns no plaintext and an InvalidData error whose message is "cannot
\* select platform key: " and then the message of getPlatformKey; it fails
\* with "no key available" when no key of the snapshot matches, the empty
\* snapshot included.
C12_SelectionFailure ==
    \A t \in Returned :
       /\ r[t].selErr # "" =>
             /\ r[t].res.payload = 0
             /\ r[t].res.kind = "InvalidData"
             /\ r[t].res.msg = <<"cannot select platform key", r[t].selErr>>
       /\ (r[t].copies = 1 /\ Matches(t, r[t].snap) = {}) =>
             /\ r[t].selErr = "no key available"
             /\ r[t].res.msg = <<"cannot select platform key", "no key available">>
       /\ r[t].selErr \in {"", "no key available", "digest algorithm unavailable"}

C12_Witness ==
    \E t \in Returned :
       /\ Available(Handle(t).Alg)
       /\ r[t].copies = 1
       /\ r[t].snap = << >>
       /\ r[t].selErr = "no key available"
       /\ r[t].res.kind = "InvalidData"
       /\ r[t].res.msg = <<"cannot select platform key", "no key available">>

\* C13: RecoverKeysWithAuthKey and ChangeAuthKey return, for every input
\* and every state of the store and of the lock, no data and the plain
\* error "unsupported action", and they have taken no lock and read no
\* store.
C13_Unsupported ==
    \A t \in Readers :
       r[t].op \in {"RecoverKeysWithAuthKey", "ChangeAuthKey"} =>
          /\ r[t].pc = "done"
          /\ r[t].res.payload = 0
          /\ r[t].res.kind = "plain"
          /\ r[t].res.msg = <<"unsupported action">>
          /\ r[t].rlocks = 0
          /\ r[t].copies = 0
          /\ r[t].opens = 0
          /\ t \notin muR

C13_Witness ==
    \E t \in Readers :
       /\ r[t].op = "ChangeAuthKey"
       /\ ~Handle(t).json
       /\ r[t].auth[1] # r[t].auth[2]
       /\ r[t].res.kind = "plain"
       /\ r[t].res.msg = <<"unsupported action">>
       /\ StoreVals # << >>
       /\ \E x \in Writers : w[x].pc = "locked"

\* C14: every error of RecoverKeys is of one of two classes, fixed by the
\* step that failed: parse, nonce length, AAD serialisation, key selection
\* and AEAD open fail with InvalidData; the construction of the cipher or
\* of the AEAD fails with a plain error.
C14_ErrorClasses ==
    \A t \in Returned :
       r[t].res.kind # "ok" =>
          /\ r[t].res.payload = 0
          /\ r[t].res.kind \in {"InvalidData", "plain"}
          /\ r[t].res.kind = "InvalidData" <=>
                r[t].res.msg[1] \in {"invalid character", "invalid nonce size",
                                     "cannot serialize AAD", "cannot select platform key",
                                     "cannot open payload"}
          /\ r[t].res.kind = "plain" <=>
                r[t].res.msg[1] \in {"cannot create cipher", "cannot create AEAD"}
          /\ (r[t].opens = 1 /\ AeadNonce(t) = << >>) => r[t].res.kind = "plain"
          /\ r[t].opens = 0 => r[t].res.kind = "InvalidData"

C14_Witness ==
    \E t \in Returned :
       /\ r[t].tam = <<"nonceLen", symKeySaltSize>>
       /\ Selected(t)
       /\ r[t].opens = 1
       /\ r[t].res.kind = "plain"
       /\ r[t].res.msg[1] = "cannot create AEAD"

\* C15: in one RecoverKeys call the store is locked and read at most once
\* and at most one open of the payload is attempted: when the open with
\* the selected key fails, the call returns that error having read the
\* store once and tried the one key, the first match of the snapshot.
C15_OneSnapshotOneOpen ==
    \A t \in Readers :
       /\ r[t].rlocks <= 1
       /\ r[t].copies <= 1
       /\ r[t].opens <= 1
       /\ (t \in Returned /\ r[t].res.msg # << >> /\ r[t].res.msg[1] = "cannot open payload") =>
             /\ r[t].copies = 1
             /\ r[t].opens = 1
             /\ r[t].key = r[t].snap[r[t].i + 1]

C15_Witness ==
    \E t \in Returned :
       /\ r[t].res.msg # << >>
       /\ r[t].res.msg[1] = "cannot open payload"
       /\ r[t].snap = <<r[t].sp.key, r[t].sp.key>>
       /\ r[t].i = 0
       /\ r[t].opens = 1
       /\ StoreVals = r[t].snap

\* C16: when several keys of the snapshot match the handle, getPlatformKey
\* returns the one of the lowest index, having examined no key after it.
C16_FirstMatch ==
    \A t \in Readers :
       (r[t].pc = "open" /\ Cardinality(Matches(t, r[t].snap)) >= 2) =>
          /\ \A j \in Matches(t, r[t].snap) : r[t].i + 1 <= j
          /\ r[t].i + 1 \in Matches(t, r[t].snap)
          /\ r[t].key = r[t].snap[r[t].i + 1]

\* The step of RecoverKeys that fails first for the input of the call and
\* the store, named by the message it reports; "" when none fails.  The
\* steps in their order: parse handle, nonce length, AAD serialisation, key
\* selection, cipher construction, AEAD construction, AEAD open.
FirstFailure(t) ==
    LET e == r[t].in
        kd == e.handle
        hit == Matches(t, StoreVals)
        key == StoreVals[CHOOSE j \in hit : \A k \in hit : j <= k]
        aesKey == deriveAESKey(key, Prefix(kd.Nonce, symKeySaltSize))
    IN IF ~kd.json THEN "invalid character"
       ELSE IF Len(kd.Nonce) < symKeySaltSize THEN "invalid nonce size"
       ELSE IF ~Supported(e.KDFAlg) THEN "cannot serialize AAD"
       ELSE IF ~Available(kd.Alg) \/ hit = {} THEN "cannot select platform key"
       ELSE IF aesKey.size \notin {16, 24, 32} THEN "cannot create cipher"
       ELSE IF Len(kd.Nonce) = symKeySaltSize THEN "cannot create AEAD"
       ELSE IF \/ e.payload.k # aesKey
               \/ e.payload.n # AeadNonce(t)
               \/ e.payload.a # MarshalASN1(additionalData(e)).bytes
            THEN "cannot open payload"
       ELSE ""

\* C17: the error RecoverKeys returns is that of the first step that fails
\* in the order parse handle, nonce length, AAD serialisation, key
\* selection, cipher construction, AEAD construction, AEAD open, whatever
\* later steps would have failed too; it returns the plaintext when none
\* fails.
C17_CheckOrder ==
    \A t \in Returned :
       IF FirstFailure(t) = ""
       THEN r[t].res.kind = "ok" /\ r[t].res.payload # 0
       ELSE /\ r[t].res.kind # "ok"
            /\ r[t].res.payload = 0
            /\ r[t].res.msg[1] = FirstFailure(t)

\* Two steps would fail: the nonce is short and the AAD does not serialise,
\* and the store is empty as well.
C17_Witness ==
    \E t \in Returned :
       /\ r[t].tam = <<"nonceLenKdfAlg", 0>>
       /\ Len(Handle(t).Nonce) < symKeySaltSize
       /\ ~Supported(r[t].in.KDFAlg)
       /\ StoreVals = << >>
       /\ r[t].res.msg = <<"invalid nonce size">>

\* A selection failure with a payload that would not authenticate.
C17_WitnessSelect ==
    \E t \in Returned :
       /\ r[t].tam = <<"digestGeneration", 0>>
       /\ r[t].sp.key \in Range(StoreVals)
       /\ r[t].res.msg[1] = "cannot select platform key"

\* C18: when the algorithm of the platformKeyId is not available,
\* getPlatformKey fails with "digest algorithm unavailable" without taking
\* the read lock or reading the store, whatever the store holds, and
\* RecoverKeys reports it as an InvalidData error.
C18_UnavailableAlg ==
    \A t \in Returned :
       (/\ Handle(t).json
        /\ Len(Handle(t).Nonce) >= symKeySaltSize
        /\ Supported(r[t].in.KDFAlg)
        /\ ~Available(Handle(t).Alg)) =>
          /\ r[t].selErr = "digest algorithm unavailable"
          /\ r[t].res.payload = 0
          /\ r[t].res.kind = "InvalidData"
          /\ r[t].res.msg = <<"cannot select platform key", "digest algorithm unavailable">>
          /\ r[t].rlocks = 0
          /\ r[t].copies = 0

C18_Witness ==
    \E t \in Returned :
       /\ r[t].tam = <<"alg", 2>>
       /\ ~Available(Handle(t).Alg)
       /\ StoreVals = << >>
       /\ r[t].res.kind = "InvalidData"
       /\ r[t].res.msg = <<"cannot select platform key", "digest algorithm unavailable">>
       /\ r[t].rlocks = 0

C18_WitnessStore ==
    \E t \in Returned :
       /\ ~Available(Handle(t).Alg)
       /\ r[t].sp.key \in Range(StoreVals)
       /\ r[t].selErr = "digest algorithm unavailable"

\* C19: platformKeysMu is held by a reader only while it copies the list
\* reference, not while it iterates or decrypts, and by a writer only
\* during its call; under fair scheduling every SetPlatformKeys and
\* AddPlatformKeys call that has begun returns and every RecoverKeys call
\* returns.
C19_LocksReleased ==
    /\ [](\A t \in Readers : t \in muR <=> r[t].pc \in {"copy", "runlock"})
    /\ [](\A t \in Writers : muW = t <=> w[t].pc # "idle")
    /\ \A t \in Writers : (w[t].pc # "idle") ~> (w[t].pc = "idle")
    /\ \A t \in Readers : (r[t].pc \notin {"idle", "done"}) ~> (r[t].pc = "done")

\* A writer is in its critical section while a recovery iterates.
C19_Witness ==
    /\ \E t \in Writers : w[t].pc \in {"locked", "writing"}
    /\ \E t \in Readers : r[t].pc = "range" /\ r[t].copies = 1 /\ r[t].keys.len > 0
    /\ muR = {}

\* C20: no step of RecoverKeys (or of the operations that are not
\* supported) changes the platform key store: the slice, the arrays and
\* so the keys, their order and their number are as before the step.
C20_RecoverKeysLeavesStore ==
    [][((\E t \in Readers : r'[t] # r[t]) /\ w' = w) =>
          /\ platformKeys' = platformKeys
          /\ heap' = heap
          /\ StoreVals' = StoreVals]_vars

\* A failed recovery has returned and the store holds what the call found.
C20_Witness ==
    \E t \in Returned :
       /\ r[t].res.kind = "InvalidData"
       /\ r[t].copies = 1
       /\ r[t].snap # << >>
       /\ StoreVals = r[t].snap
       /\ platformKeys = r[t].keys

====
